---- MODULE Spec2Model ----
(***************************************************************************)
(* Model of custom_components/smartthings/media_player.py: the capability  *)
(* filter, the setup of one adapter per device, the feature mask computed  *)
(* at construction, the property accessors read from the live snapshot and *)
(* the command dispatch.                                                   *)
(*                                                                         *)
(* Encoding of Python values:                                              *)
(*   - an optional value is a sequence of length at most one: <<>> is      *)
(*     Python's None, <<v>> is the value v;                                *)
(*   - a float is the exact fraction num / den; the floats used here      *)
(*     are dyadic, so that volume * 100 is exact in binary floating point  *)
(*     and the fraction arithmetic is what the interpreter computes;       *)
(*   - an IntFlag mask is the set of the names of its bits: | is \cup and  *)
(*     a test "mask & BIT" is membership.                                  *)
(***************************************************************************)
EXTENDS Integers, Sequences, FiniteSets, TLC

None == <<>>

Some(v) == <<v>>

\* ---------------------------------------------------------------- bounds
MaxDevices == 2

MaxCaps == 2

MaxActions == 2

\* ------------------------------------------------- pysmartthings constants
audio_mute == "audioMute"

audio_volume == "audioVolume"

media_input_source == "mediaInputSource"

media_playback == "mediaPlayback"

media_playback_repeat == "mediaPlaybackRepeat"

media_playback_shuffle == "mediaPlaybackShuffle"

switch == "switch"

\* every capability a device may report: the seven above and one the
\* adapter does not care about
Capabilities ==
    {audio_mute, audio_volume, media_input_source, media_playback,
     media_playback_repeat, media_playback_shuffle, switch, "temperatureMeasurement"}

\* ------------------------------------------------ MediaPlayerState members
BUFFERING == "buffering"

PAUSED == "paused"

PLAYING == "playing"

IDLE == "idle"

ON == "on"

OFF == "off"

\* ------------------------------------------------------ module constants
CONTROLLABLE_SOURCES == {"bluetooth", "wifi"}

VALUE_TO_STATE ==
    [s \in {"buffering", "pause", "paused", "play", "playing",
            "stop", "stopped", "on", "off"} |->
        CASE s = "buffering" -> BUFFERING
          [] s = "pause" -> PAUSED
          [] s = "paused" -> PAUSED
          [] s = "play" -> PLAYING
          [] s = "playing" -> PLAYING
          [] s = "stop" -> IDLE
          [] s = "stopped" -> IDLE
          [] s = "on" -> ON
          [] s = "off" -> OFF]

\* ------------------------------------------------------ capability filter
supported ==
    <<audio_mute, audio_volume, media_input_source, media_playback,
      media_playback_repeat, media_playback_shuffle, switch>>

media_player_capabilities ==
    <<audio_mute, audio_volume, media_input_source, media_playback,
      media_playback_repeat, media_playback_shuffle>>

get_capabilities_no_playback(capabilities) ==
    IF \E i \in 1..Len(media_player_capabilities) :
           /\ media_player_capabilities[i] # media_playback
           /\ media_player_capabilities[i] \in capabilities
    THEN Some(supported)
    ELSE None

\* any(capability in capabilities for capability in media_player_capabilities)
get_capabilities(capabilities) ==
    IF \E i \in 1..Len(media_player_capabilities) :
           media_player_capabilities[i] \in capabilities
    THEN Some(supported)
    ELSE None

\* --------------------------------------------------- SmartThingsEntity base
\* capability in device.status[MAIN]
supports_capability(caps, capability) == capability \in caps

\* the value of an attribute in the device's snapshot, None when it has none
get_attribute_value(snap, capability, attribute) == snap[attribute]

\* ------------------------------------------------------------ feature mask
_determine_features_no_step(caps) ==
    {"PLAY", "PAUSE", "STOP"}
    \cup (IF supports_capability(caps, audio_volume)
          THEN {"VOLUME_SET"} ELSE {})
    \cup (IF supports_capability(caps, audio_mute)
          THEN {"VOLUME_MUTE"} ELSE {})
    \cup (IF supports_capability(caps, switch)
          THEN {"TURN_ON", "TURN_OFF"} ELSE {})
    \cup (IF supports_capability(caps, media_input_source)
          THEN {"SELECT_SOURCE"} ELSE {})
    \cup (IF supports_capability(caps, media_playback_shuffle)
          THEN {"SHUFFLE_SET"} ELSE {})
    \cup (IF supports_capability(caps, media_playback_repeat)
          THEN {"REPEAT_SET"} ELSE {})

_determine_features(caps) ==
    {"PLAY", "PAUSE", "STOP"}
    \cup (IF supports_capability(caps, audio_volume)
          THEN {"VOLUME_SET", "VOLUME_STEP"} ELSE {})
    \cup (IF supports_capability(caps, audio_mute)
          THEN {"VOLUME_MUTE"} ELSE {})
    \cup (IF supports_capability(caps, switch)
          THEN {"TURN_ON", "TURN_OFF"} ELSE {})
    \cup (IF supports_capability(caps, media_input_source)
          THEN {"SELECT_SOURCE"} ELSE {})
    \cup (IF supports_capability(caps, media_playback_shuffle)
          THEN {"SHUFFLE_SET"} ELSE {})
    \cup (IF supports_capability(caps, media_playback_repeat)
          THEN {"REPEAT_SET"} ELSE {})

\* ------------------------------------------------------------------- setup
\* The list comprehension of async_setup_entry from device i on.  Iterating
\* the None that get_capabilities returns raises TypeError, which leaves the
\* comprehension and the handler: async_add_entities is never called.
RECURSIVE comprehension(_, _)
comprehension(devs, i) ==
    IF i > Len(devs)
    THEN [error |-> "", entities |-> <<>>]
    ELSE LET status == devs[i]
             caps == get_capabilities(status)
         IN IF caps = None
            THEN [error |-> "TypeError", entities |-> <<>>]
            ELSE LET rest == comprehension(devs, i + 1)
                     keep == \E k \in 1..Len(caps[1]) : caps[1][k] \in status
                     entity == [device |-> i,
                                supported_features |-> _determine_features(status)]
                 IN IF rest.error # ""
                    THEN rest
                    ELSE [error |-> "",
                          entities |-> IF keep
                                       THEN <<entity>> \o rest.entities
                                       ELSE rest.entities]

VARIABLES
    capabilities,       \* argument of the last get_capabilities call
    capsResult,         \* what that call returned, Some(..) once called
    devices,            \* entry_data.devices: the status[MAIN] keys of each
    entities,           \* the list handed to async_add_entities
    setupStatus,        \* "idle", "done" or the error setup raised
    deviceCaps,         \* status[MAIN] keys of the adapter's device
    constructed,        \* __init__ has run
    supported_features, \* _attr_supported_features
    snapshot,           \* the device's live attribute values
    stateRead,          \* state as read since the last refresh
    titleRead,          \* media_title as read since the last refresh
    volumeRead,         \* volume_level as read since the last refresh
    invoked,            \* the action methods called, in order
    submitted,          \* the triples the executor received, in order
    outcomes,           \* what the executor did with each submission
    raised,             \* what each caller saw
    applied             \* index of the submission the snapshot reflects

vars ==
    <<capabilities, capsResult, devices, entities, setupStatus, deviceCaps,
      constructed, supported_features, snapshot, stateRead, titleRead,
      volumeRead, invoked, submitted, outcomes, raised, applied>>

filterVars == <<capabilities, capsResult>>

setupVars == <<devices, entities, setupStatus>>

adapterVars == <<deviceCaps, constructed, supported_features>>

readVars == <<snapshot, stateRead, titleRead, volumeRead>>

commandVars == <<invoked, submitted, outcomes, raised, applied>>

EmptySnapshot ==
    [switch |-> None, inputSource |-> None, playbackStatus |-> None,
     volume |-> None, trackDescription |-> None]

InitFilter == capabilities = {} /\ capsResult = None

InitSetup == devices = <<>> /\ entities = <<>> /\ setupStatus = "idle"

InitReads ==
    /\ snapshot = EmptySnapshot
    /\ stateRead = None /\ titleRead = None /\ volumeRead = None

InitCommands ==
    /\ invoked = <<>> /\ submitted = <<>> /\ outcomes = <<>> /\ raised = <<>>
    /\ applied = 0

InitNoAdapter ==
    deviceCaps = {} /\ constructed = FALSE /\ supported_features = {}

\* ------------------------------------------------- capability filter alone
GetCapabilities ==
    \E caps \in SUBSET Capabilities :
        /\ capabilities' = caps
        /\ capsResult' = Some(get_capabilities(caps))
        /\ UNCHANGED <<setupVars, adapterVars, readVars, commandVars>>

InitCaps ==
    InitFilter /\ InitSetup /\ InitNoAdapter /\ InitReads /\ InitCommands

NextCaps == GetCapabilities

SpecCaps == InitCaps /\ [][NextCaps]_vars

\* ------------------------------------------------- claim on SpecCaps
Primary ==
    {"audioMute", "audioVolume", "mediaInputSource", "mediaPlayback",
     "mediaPlaybackRepeat", "mediaPlaybackShuffle"}

Seven == Primary \cup {"switch"}

\* C4: get_capabilities returns the full fixed set of seven capabilities
\* for every input subset that contains at least one of the six primary
\* capabilities, and nothing for every subset that contains none of them,
\* the subset holding only switch included.
C4_FilterAllOrNothing ==
    capsResult # None =>
        IF capabilities \cap Primary # {}
        THEN /\ capsResult[1] # None
             /\ Len(capsResult[1][1]) = Cardinality(Seven)
             /\ {capsResult[1][1][k] : k \in 1..Len(capsResult[1][1])} = Seven
        ELSE capsResult[1] = None

C4_Witness ==
    /\ capabilities = {"mediaPlayback", "temperatureMeasurement"}
    /\ capsResult = Some(Some(supported))

\* ------------------------------------------------------- async_setup_entry
DeviceStatuses == {c \in SUBSET Capabilities : Cardinality(c) <= MaxCaps}

RECURSIVE DeviceLists(_)
DeviceLists(n) ==
    IF n = 0
    THEN {<<>>}
    ELSE DeviceLists(n - 1)
         \cup {Append(l, d) : l \in {x \in DeviceLists(n - 1) : Len(x) = n - 1},
                              d \in DeviceStatuses}

async_setup_entry ==
    /\ setupStatus = "idle"
    /\ \E devs \in DeviceLists(MaxDevices) :
         LET r == comprehension(devs, 1)
         IN /\ devices' = devs
            /\ entities' = r.entities
            /\ setupStatus' = IF r.error = "" THEN "done" ELSE r.error
    /\ UNCHANGED <<filterVars, adapterVars, readVars, commandVars>>

InitSetupEntry ==
    InitFilter /\ InitSetup /\ InitNoAdapter /\ InitReads /\ InitCommands

NextSetup == async_setup_entry

SpecSetup == InitSetupEntry /\ [][NextSetup]_vars

\* ------------------------------------------------- claim on SpecSetup
\* the devices of the list that expose at least one relevant capability
Qualifying == {i \in 1..Len(devices) : devices[i] \cap Primary # {}}

\* C5: for every list of devices, setup completes without error and hands
\* the host exactly one adapter for each device that exposes at least one
\* relevant capability and none for any other device; a device with no
\* primary capability is skipped and does not make setup fail.
C5_OneAdapterPerQualifying ==
    setupStatus # "idle" =>
        /\ setupStatus = "done"
        /\ Len(entities) = Cardinality(Qualifying)
        /\ \A i \in Qualifying :
               Cardinality({k \in 1..Len(entities) : entities[k].device = i}) = 1

\* ---------------------------------------------------------------- __init__
__init__ ==
    /\ ~constructed
    /\ \E caps \in SUBSET Capabilities :
         /\ deviceCaps' = caps
         /\ supported_features' = _determine_features(caps)
    /\ constructed' = TRUE
    /\ UNCHANGED <<filterVars, setupVars, readVars, commandVars>>

InitFeatures ==
    InitFilter /\ InitSetup /\ InitNoAdapter /\ InitReads /\ InitCommands

NextFeatures == __init__

SpecFeatures == InitFeatures /\ [][NextFeatures]_vars

\* ------------------------------------------------- claim on SpecFeatures
\* C6: the feature mask computed at construction is exactly PLAY, PAUSE,
\* STOP plus VOLUME_SET and VOLUME_STEP iff volume is supported, VOLUME_MUTE
\* iff mute, TURN_ON and TURN_OFF iff switch, SELECT_SOURCE iff input
\* source, SHUFFLE_SET iff shuffle, REPEAT_SET iff repeat; and the mask is
\* monotonic: every bit set for the device's capabilities is set for every
\* larger capability set.
C6_FeatureMask ==
    constructed =>
        /\ {"PLAY", "PAUSE", "STOP"} \subseteq supported_features
        /\ supported_features \subseteq
               {"PLAY", "PAUSE", "STOP", "VOLUME_SET", "VOLUME_STEP",
                "VOLUME_MUTE", "TURN_ON", "TURN_OFF", "SELECT_SOURCE",
                "SHUFFLE_SET", "REPEAT_SET"}
        /\ "VOLUME_SET" \in supported_features <=> "audioVolume" \in deviceCaps
        /\ "VOLUME_STEP" \in supported_features <=> "audioVolume" \in deviceCaps
        /\ "VOLUME_MUTE" \in supported_features <=> "audioMute" \in deviceCaps
        /\ "TURN_ON" \in supported_features <=> "switch" \in deviceCaps
        /\ "TURN_OFF" \in supported_features <=> "switch" \in deviceCaps
        /\ "SELECT_SOURCE" \in supported_features
               <=> "mediaInputSource" \in deviceCaps
        /\ "SHUFFLE_SET" \in supported_features
               <=> "mediaPlaybackShuffle" \in deviceCaps
        /\ "REPEAT_SET" \in supported_features
               <=> "mediaPlaybackRepeat" \in deviceCaps
        /\ \A larger \in SUBSET Capabilities :
               deviceCaps \subseteq larger =>
                   supported_features \subseteq _determine_features(larger)

C6_Witness ==
    /\ constructed
    /\ deviceCaps = {"audioVolume", "switch"}
    /\ supported_features =
           {"PLAY", "PAUSE", "STOP", "VOLUME_SET", "VOLUME_STEP",
            "TURN_ON", "TURN_OFF"}

\* ------------------------------------------------------------ Python values
\* A Python value passed to an action method or to the executor.
NoArg == [kind |-> "none", str |-> "", num |-> 0, den |-> 1]

IntArg(n) == [kind |-> "int", str |-> "", num |-> n, den |-> 1]

FloatArg(n, d) == [kind |-> "float", str |-> "", num |-> n, den |-> d]

StrArg(s) == [kind |-> "str", str |-> s, num |-> 0, den |-> 1]

BoolArg(b) == [kind |-> "bool", str |-> IF b THEN "True" ELSE "False", num |-> 0, den |-> 1]

\* int(x) of a float x >= 0: truncation
PyInt(x) == x.num \div x.den

\* round(x) of a float x >= 0: to the nearest integer, a tie to the even one
PyRound(x) ==
    LET q == x.num \div x.den
        r == x.num % x.den
    IN IF 2 * r < x.den THEN q
       ELSE IF 2 * r > x.den THEN q + 1
       ELSE IF q % 2 = 0 THEN q ELSE q + 1

\* x * k of a float x and an integer k
Times(x, k) == FloatArg(x.num * k, x.den)

\* ------------------------------------------------------ property accessors
\* Python's truth value of an optional string
Truthy(v) == v # None /\ v # Some("")

source(features, snap) ==
    IF "SELECT_SOURCE" \in features
    THEN get_attribute_value(snap, media_input_source, "inputSource")
    ELSE None

state_bluetooth_only(features, snap) ==
    IF Truthy(get_attribute_value(snap, switch, "switch"))
    THEN LET src == source(features, snap)
             playback_status ==
                 get_attribute_value(snap, media_playback, "playbackStatus")
         IN IF /\ src # None
               /\ src[1] = "bluetooth"
               /\ playback_status # None
               /\ playback_status[1] \in DOMAIN VALUE_TO_STATE
            THEN VALUE_TO_STATE[playback_status[1]]
            ELSE ON
    ELSE OFF

state_any_source(features, snap) ==
    IF Truthy(get_attribute_value(snap, switch, "switch"))
    THEN LET src == source(features, snap)
             playback_status ==
                 get_attribute_value(snap, media_playback, "playbackStatus")
         IN IF /\ src # None
               /\ playback_status # None
               /\ playback_status[1] \in DOMAIN VALUE_TO_STATE
            THEN VALUE_TO_STATE[playback_status[1]]
            ELSE ON
    ELSE OFF

state(features, snap) ==
    IF Truthy(get_attribute_value(snap, switch, "switch"))
    THEN LET src == source(features, snap)
             playback_status ==
                 get_attribute_value(snap, media_playback, "playbackStatus")
         IN IF /\ src # None
               /\ src[1] \in CONTROLLABLE_SOURCES
               /\ playback_status # None
               /\ playback_status[1] \in DOMAIN VALUE_TO_STATE
            THEN VALUE_TO_STATE[playback_status[1]]
            ELSE ON
    ELSE OFF

\* snap.trackDescription is None when 'trackDescription' is not in the
\* attributes, and Some(value) when it is; the value is optional itself
media_title_any_state(features, snap) ==
    IF /\ state(features, snap) # OFF
       /\ snap.trackDescription # None
    THEN snap.trackDescription[1]
    ELSE None

media_title(features, snap) ==
    IF /\ state(features, snap) \in {PLAYING, PAUSED}
       /\ snap.trackDescription # None
    THEN snap.trackDescription[1]
    ELSE None

\* float(volume) / 100, as the fraction volume / 100
volume_level(features, snap) ==
    IF "VOLUME_SET" \in features
    THEN LET volume == get_attribute_value(snap, audio_volume, "volume")
         IN IF volume # None THEN Some(FloatArg(volume[1], 100)) ELSE None
    ELSE None

\* --------------------------------------------- the adapter of one device
\* setup constructs an adapter only for a device that passes the filter
QualifyingStatuses == {c \in DeviceStatuses : get_capabilities(c) # None}

InitAdapter ==
    /\ deviceCaps \in QualifyingStatuses
    /\ constructed = TRUE
    /\ supported_features = _determine_features(deviceCaps)

AttributeValues ==
    [switch |-> {None, Some("on"), Some("off")},
     inputSource |-> {None, Some("bluetooth"), Some("wifi"), Some("hdmi")},
     playbackStatus |->
         {None} \cup {Some(s) : s \in DOMAIN VALUE_TO_STATE \cup {"fast forwarding"}},
     trackDescription |-> {None, Some(None), Some(Some("Song"))}]

\* the external client refreshes one attribute of the snapshot
Refresh ==
    /\ \E a \in DOMAIN AttributeValues :
         \E v \in AttributeValues[a] :
            snapshot' = [snapshot EXCEPT ![a] = v]
    /\ stateRead' = None /\ titleRead' = None /\ volumeRead' = None
    /\ UNCHANGED <<filterVars, setupVars, adapterVars, commandVars>>

ReadState ==
    /\ stateRead' = Some(state(supported_features, snapshot))
    /\ UNCHANGED <<filterVars, setupVars, adapterVars, commandVars,
                   snapshot, titleRead, volumeRead>>

ReadMediaTitle ==
    /\ titleRead' = Some(media_title(supported_features, snapshot))
    /\ UNCHANGED <<filterVars, setupVars, adapterVars, commandVars,
                   snapshot, stateRead, volumeRead>>

InitState ==
    InitFilter /\ InitSetup /\ InitAdapter /\ InitReads /\ InitCommands

NextState == Refresh \/ ReadState \/ ReadMediaTitle

SpecState == InitState /\ [][NextState]_vars

\* ------------------------------------------------- claims on SpecState
SwitchOn == snapshot.switch = Some("on")

Controllable ==
    /\ "SELECT_SOURCE" \in supported_features
    /\ snapshot.inputSource \in {Some("bluetooth"), Some("wifi")}

MappedPlayback ==
    /\ snapshot.playbackStatus # None
    /\ snapshot.playbackStatus[1] \in
           {"buffering", "pause", "paused", "play", "playing",
            "stop", "stopped", "on", "off"}

\* C1: in every snapshot whose switch attribute value is "off", the state
\* property returns OFF, whatever the source, the playback-status and the
\* feature mask are.
C1_SwitchOffIsOff ==
    (stateRead # None /\ snapshot.switch = Some("off")) => stateRead[1] = OFF

\* C2: with the switch on, the SELECT_SOURCE feature set, the source
\* "bluetooth" or "wifi" and a playback-status that is a key of the
\* state-mapping table, state returns the table's value for it ("playing"
\* gives PLAYING, "stopped" gives IDLE).
C2_MappedState ==
    (stateRead # None /\ SwitchOn /\ Controllable /\ MappedPlayback) =>
        /\ stateRead[1] = VALUE_TO_STATE[snapshot.playbackStatus[1]]
        /\ snapshot.playbackStatus = Some("playing") => stateRead[1] = PLAYING
        /\ snapshot.playbackStatus = Some("stopped") => stateRead[1] = IDLE

C2_Witness ==
    /\ SwitchOn
    /\ snapshot.inputSource = Some("wifi")
    /\ "SELECT_SOURCE" \in supported_features
    /\ snapshot.playbackStatus = Some("stopped")
    /\ stateRead = Some(IDLE)

\* C3: with the switch on, state returns ON (and raises nothing) whenever
\* the device has no source feature, or the source is absent or is neither
\* "bluetooth" nor "wifi", or the playback-status is not a key of the table.
C3_DefaultOn ==
    (stateRead # None /\ SwitchOn /\ (~Controllable \/ ~MappedPlayback)) =>
        stateRead[1] = ON

C3_Witness ==
    /\ SwitchOn
    /\ "SELECT_SOURCE" \in supported_features
    /\ snapshot.inputSource = Some("hdmi")
    /\ snapshot.playbackStatus = Some("playing")
    /\ stateRead = Some(ON)

\* C8: media_title is absent whenever the derived state is OFF, ON, IDLE or
\* BUFFERING, and it is the title attribute's value exactly when the state
\* is PLAYING or PAUSED and the title attribute exists in the snapshot.
C8_TitleOnlyWhenPlaying ==
    (stateRead # None /\ titleRead # None) =>
        IF /\ stateRead[1] \in {PLAYING, PAUSED}
           /\ snapshot.trackDescription # None
        THEN titleRead[1] = snapshot.trackDescription[1]
        ELSE titleRead[1] = None

C8_Witness ==
    /\ stateRead = Some(PAUSED)
    /\ snapshot.trackDescription = Some(Some("Song"))
    /\ titleRead = Some(Some("Song"))

\* C10 as stated: with the switch on, the derived state is one of
\* BUFFERING, PAUSED, PLAYING, IDLE or ON and is never OFF.
C10_NeverOffWhileOn ==
    (stateRead # None /\ SwitchOn) =>
        stateRead[1] \in {BUFFERING, PAUSED, PLAYING, IDLE, ON}

\* C10 as amended: with the switch on, the derived state is one of
\* BUFFERING, PAUSED, PLAYING, IDLE, ON or OFF, and it is OFF exactly when a
\* controllable source is selected and the playback-status is "off".
C10_OffOnlyFromPlaybackOff ==
    (stateRead # None /\ SwitchOn) =>
        /\ stateRead[1] \in {BUFFERING, PAUSED, PLAYING, IDLE, ON, OFF}
        /\ stateRead[1] = OFF <=>
               (Controllable /\ snapshot.playbackStatus = Some("off"))

C10_Witness ==
    /\ SwitchOn
    /\ Controllable
    /\ snapshot.playbackStatus = Some("off")
    /\ stateRead = Some(OFF)


\* -------------------------------------------------------- command dispatch
\* the devices the commands are tried on: one primary capability each, so
\* that each lacks the features of most actions
CommandDevices == {c \in QualifyingStatuses : Cardinality(c) = 1}

InitCommandAdapter ==
    /\ deviceCaps \in CommandDevices
    /\ constructed = TRUE
    /\ supported_features = _determine_features(deviceCaps)

\* SmartThingsEntity.execute_device_command: one call of the client, which
\* performs the command (result "ok") or fails (result "error")
execute_device_command(capability, command, argument, result) ==
    /\ submitted' = Append(submitted,
                           [capability |-> capability, command |-> command,
                            argument |-> argument])
    /\ outcomes' = Append(outcomes, result)

\* An action method: the host calls it with `input`; its body awaits one
\* execute_device_command and handles no exception, so the caller sees the
\* executor's result.
Call(name, input, capability, command, argument) ==
    /\ invoked' = Append(invoked, [action |-> name, input |-> input])
    /\ \E result \in {"ok", "error"} :
         /\ execute_device_command(capability, command, argument, result)
         /\ raised' = Append(raised, result)
    /\ UNCHANGED <<filterVars, setupVars, adapterVars, readVars, applied>>

async_turn_off ==
    /\ Len(invoked) < MaxActions
    /\ Call("async_turn_off", NoArg, switch, "off", NoArg)

async_turn_on ==
    /\ Len(invoked) < MaxActions
    /\ Call("async_turn_on", NoArg, switch, "on", NoArg)

async_mute_volume_only_mute ==
    /\ Len(invoked) < MaxActions
    /\ \E mute \in BOOLEAN :
        IF mute
        THEN Call("async_mute_volume", BoolArg(mute), audio_mute, "mute", NoArg)
        ELSE /\ invoked' = Append(invoked, [action |-> "async_mute_volume",
                                            input |-> BoolArg(mute)])
             /\ raised' = Append(raised, "ok")
             /\ UNCHANGED <<filterVars, setupVars, adapterVars, readVars,
                            applied, submitted, outcomes>>

async_mute_volume ==
    /\ Len(invoked) < MaxActions
    /\ \E mute \in BOOLEAN :
        IF mute
        THEN Call("async_mute_volume", BoolArg(mute), audio_mute, "mute", NoArg)
        ELSE Call("async_mute_volume", BoolArg(mute), audio_mute, "unmute", NoArg)

\* the local volumes tried: 0.0, 0.5, 0.875 and 1.0
VolumeInputs == {FloatArg(0, 1), FloatArg(1, 2), FloatArg(7, 8), FloatArg(1, 1)}

async_set_volume_level_int_first ==
    /\ Len(invoked) < MaxActions
    /\ \E volume \in VolumeInputs :
        Call("async_set_volume_level", volume, audio_volume, "setVolume",
             IntArg(PyInt(volume) * 100))

async_set_volume_level ==
    /\ Len(invoked) < MaxActions
    /\ \E volume \in VolumeInputs :
        Call("async_set_volume_level", volume, audio_volume, "setVolume",
             IntArg(PyInt(Times(volume, 100))))

async_volume_up ==
    /\ Len(invoked) < MaxActions
    /\ Call("async_volume_up", NoArg, audio_volume, "volumeUp", NoArg)

async_volume_down ==
    /\ Len(invoked) < MaxActions
    /\ Call("async_volume_down", NoArg, audio_volume, "volumeDown", NoArg)

async_media_play ==
    /\ Len(invoked) < MaxActions
    /\ Call("async_media_play", NoArg, media_playback, "play", NoArg)

async_media_pause ==
    /\ Len(invoked) < MaxActions
    /\ Call("async_media_pause", NoArg, media_playback, "pause", NoArg)

async_media_stop ==
    /\ Len(invoked) < MaxActions
    /\ Call("async_media_stop", NoArg, media_playback, "stop", NoArg)

async_select_source ==
    /\ Len(invoked) < MaxActions
    /\ \E src \in {"wifi", "hdmi"} :
        Call("async_select_source", StrArg(src), media_input_source,
             "setInputSource", StrArg(src))

async_set_shuffle ==
    /\ Len(invoked) < MaxActions
    /\ \E shuffle \in BOOLEAN :
        Call("async_set_shuffle", BoolArg(shuffle), media_playback_shuffle,
             "setPlaybackShuffle", BoolArg(shuffle))

async_set_repeat ==
    /\ Len(invoked) < MaxActions
    /\ \E repeat \in {"off", "all", "one"} :
        Call("async_set_repeat", StrArg(repeat), media_playback_repeat,
             "setPlaybackRepeatMode", StrArg(repeat))

InitCmd ==
    InitFilter /\ InitSetup /\ InitCommandAdapter /\ InitReads /\ InitCommands

NextCmd ==
    \/ async_turn_off
    \/ async_turn_on
    \/ async_mute_volume
    \/ async_set_volume_level
    \/ async_volume_up
    \/ async_volume_down
    \/ async_media_play
    \/ async_media_pause
    \/ async_media_stop
    \/ async_select_source
    \/ async_set_shuffle
    \/ async_set_repeat

SpecCmd == InitCmd /\ [][NextCmd]_vars

\* ------------------------------------------------- claim on SpecCmd
\* the capability and the command each action method stands for
CommandOf ==
    [async_turn_off |-> <<"switch", "off">>,
     async_turn_on |-> <<"switch", "on">>,
     async_mute_volume |-> <<"audioMute", "mute">>,
     async_set_volume_level |-> <<"audioVolume", "setVolume">>,
     async_volume_up |-> <<"audioVolume", "volumeUp">>,
     async_volume_down |-> <<"audioVolume", "volumeDown">>,
     async_media_play |-> <<"mediaPlayback", "play">>,
     async_media_pause |-> <<"mediaPlayback", "pause">>,
     async_media_stop |-> <<"mediaPlayback", "stop">>,
     async_select_source |-> <<"mediaInputSource", "setInputSource">>,
     async_set_shuffle |-> <<"mediaPlaybackShuffle", "setPlaybackShuffle">>,
     async_set_repeat |-> <<"mediaPlaybackRepeat", "setPlaybackRepeatMode">>]

\* the triple of call c is the submission s
IsTripleOf(s, c) ==
    /\ s.capability = CommandOf[c.action][1]
    /\ s.command =
           IF c.action = "async_mute_volume" /\ c.input = BoolArg(FALSE)
           THEN "unmute"
           ELSE CommandOf[c.action][2]
    /\ s.argument.kind =
           CASE c.action = "async_set_volume_level" -> "int"
             [] c.action \in {"async_select_source", "async_set_shuffle",
                              "async_set_repeat"} -> c.input.kind
             [] OTHER -> "none"
    /\ c.action \in {"async_select_source", "async_set_shuffle",
                     "async_set_repeat"} => s.argument = c.input

\* C9: for any sequence of imperative actions, each invocation submits
\* exactly one (capability, command, optional argument) triple to the
\* executor, in invocation order and regardless of the feature mask; a
\* failed submission is not retried and its error reaches the caller, so
\* the number of submissions always equals the number of actions invoked.
C9_OneSubmissionPerAction ==
    /\ Len(submitted) = Len(invoked)
    /\ Len(outcomes) = Len(invoked)
    /\ Len(raised) = Len(invoked)
    /\ \A i \in 1..Len(invoked) :
         /\ IsTripleOf(submitted[i], invoked[i])
         /\ raised[i] = outcomes[i]

C9_Witness ==
    /\ Len(invoked) = 2
    /\ "SELECT_SOURCE" \notin supported_features
    /\ invoked[1].action = "async_select_source"
    /\ outcomes[1] = "error"
    /\ raised[1] = "error"
    /\ invoked[2].action = "async_mute_volume"
    /\ submitted[2].command = "unmute"

\* ------------------------------------------------------------ volume alone
\* the device performs a setVolume command it received and the external
\* client puts the resulting volume into the snapshot
DeviceReportsVolume ==
    /\ \E i \in 1..Len(submitted) :
         /\ submitted[i].command = "setVolume"
         /\ outcomes[i] = "ok"
         /\ applied' = i
         /\ snapshot' = [snapshot EXCEPT !.volume = Some(submitted[i].argument.num)]
    /\ stateRead' = None /\ titleRead' = None /\ volumeRead' = None
    /\ UNCHANGED <<filterVars, setupVars, adapterVars,
                   invoked, submitted, outcomes, raised>>

ReadVolumeLevel ==
    /\ volumeRead' = Some(volume_level(supported_features, snapshot))
    /\ UNCHANGED <<filterVars, setupVars, adapterVars, commandVars,
                   snapshot, stateRead, titleRead>>

InitVolume ==
    InitFilter /\ InitSetup /\ InitCommandAdapter /\ InitReads /\ InitCommands

NextVolume == async_set_volume_level \/ DeviceReportsVolume \/ ReadVolumeLevel

SpecVolume == InitVolume /\ [][NextVolume]_vars

\* ------------------------------------------------- claim on SpecVolume
\* the fractions a and b are the same number
SameNumber(a, b) == a.num * b.den = b.num * a.den

\* C7: for each local value v in {0.0, 0.5, 1.0}, set-volume dispatches the
\* remote argument round(v*100) (0, 50, 100 respectively), and when the
\* snapshot then holds that remote value r and the VOLUME_SET feature is
\* set, volume_level returns r/100, which is v again.
C7_VolumeRoundTrip ==
    \A i \in 1..Len(invoked) :
        LET v == invoked[i].input
        IN (/\ invoked[i].action = "async_set_volume_level"
            /\ v \in {FloatArg(0, 1), FloatArg(1, 2), FloatArg(1, 1)}) =>
               /\ i <= Len(submitted)
               /\ submitted[i].argument = IntArg(PyRound(Times(v, 100)))
               /\ submitted[i].argument.num \in {0, 50, 100}
               /\ (/\ applied = i
                   /\ "VOLUME_SET" \in supported_features
                   /\ volumeRead # None) =>
                      /\ snapshot.volume = Some(submitted[i].argument.num)
                      /\ volumeRead[1] # None
                      /\ volumeRead[1][1].num = submitted[i].argument.num
                      /\ volumeRead[1][1].den = 100
                      /\ SameNumber(volumeRead[1][1], v)

C7_Witness ==
    /\ applied = 1
    /\ invoked[1].input = FloatArg(1, 2)
    /\ submitted[1].argument = IntArg(50)
    /\ "VOLUME_SET" \in supported_features
    /\ snapshot.volume = Some(50)
    /\ volumeRead = Some(Some(FloatArg(50, 100)))

====
